---------------------------- MODULE Spec2Model ----------------------------
(***************************************************************************)
(* A model of the per-frame systems of the farming game in src/src/main.rs *)
(* (a Bevy application): animation, crop growth, the follow chain of the   *)
(* highlight cursor and the held tool, tool use (planting and watering),   *)
(* tool pickup and player movement.                                        *)
(*                                                                         *)
(* Lengths are integers in units of 1/SubPixel of a pixel, so that the     *)
(* distance the player covers in one fixed step (250 * TIME_STEP pixels)   *)
(* is the integer 25.  The two components of a diagonal step (25/sqrt 2)   *)
(* are rounded to the nearest unit.                                        *)
(*                                                                         *)
(* The engine runs every system registered with add_system once per frame, *)
(* in an order it is free to choose, applies the commands the systems have *)
(* queued when all of them have run, and runs the fixed-timestep system    *)
(* set once for every TIME_STEP of time the frame has consumed.  Timers    *)
(* are ticked by the frame's delta time, an input of the engine: a tick    *)
(* either completes the timer's period (finished) or it does not.          *)
(***************************************************************************)
EXTENDS Integers, Sequences, FiniteSets, TLC

VARIABLES
    translation,  \* Transform.translation of the player, highlight and tools
    follow,       \* FollowTarget of each of them, or NoFollow
    flip_x,       \* TextureAtlasSprite.flip_x of the player
    animation,    \* Animation.0 of the player
    index,        \* TextureAtlasSprite.index of the player
    crops,        \* the crop entities, in spawn order
    commands,     \* the commands queued in this frame, not yet applied
    ran,          \* the systems that have run in this frame
    keys,         \* the keys held down while the fixed steps of this frame run
    pickups,      \* the pickups so far
    watered       \* for each crop, the Return presses that have watered it

vars == <<translation, follow, flip_x, animation, index, crops, commands,
          ran, keys, pickups, watered>>

----------------------------------------------------------------------------
(* Constants of the program *)

SubPixel == 6

SCALE == 3

TILE_SIZE == SCALE * 16 * SubPixel

PLAYER_SIZE == SCALE * 32 * SubPixel

\* 250.0 * TIME_STEP pixels, TIME_STEP = 1/60
STEP_LENGTH == (250 * SubPixel) \div 60

\* STEP_LENGTH / sqrt 2 = 17.68, the component of a normalised diagonal step
DIAGONAL_LENGTH == 18

\* enum CollisionLayer, cast with `as u32`
Environment == 0

Characters == 1

Tools == 2

GROWN == 2

ATLAS_LEN == 4

----------------------------------------------------------------------------
(* Bounds of the model *)

\* the player stays within MaxTiles tiles of the origin on either axis
MaxTiles == 3

\* fixed steps run in a frame in which the player moves
StepsPerFrame == 32

\* crops that can be planted
MaxCrops == 2

\* FollowTarget insertions (pickups) in a run
MaxPickups == 3

\* FollowTarget insertions (pickups) in a run of the game with its crops
MaxFarmPickups == 2

\* the waterings of a crop are counted up to MaxWaterings
MaxWaterings == 2

\* the field: the tiles 1 .. FieldTiles along x, 0 .. FieldTiles along y
FieldTiles == 3

----------------------------------------------------------------------------
(* Values *)

Vec3(x, y, z) == [x |-> x, y |-> y, z |-> z]

Add(a, b) == Vec3(a.x + b.x, a.y + b.y, a.z + b.z)

NoFollow == [none |-> TRUE]

Min(a, b) == IF a < b THEN a ELSE b

Entities == {"player", "highlight", "bag", "can"}

\* the order in which queries visit the entities: their spawn order
EntityOrder == <<"player", "highlight", "bag", "can">>

\* the systems GamePlugin::build registers with add_system
Systems == {"animate_sprite", "grow", "update_follow", "follow", "use_tool", "pickup"}

RECURSIVE BitAnd(_, _)
BitAnd(a, b) ==
    IF a = 0 \/ b = 0 THEN 0
    ELSE (IF a % 2 = 1 /\ b % 2 = 1 THEN 1 ELSE 0) + 2 * BitAnd(a \div 2, b \div 2)

BitOr(a, b) == a + b - BitAnd(a, b)

SetToSeq(S, order) == SelectSeq(order, LAMBDA e : e \in S)

----------------------------------------------------------------------------
(* Components given to the entities by setup_player *)

\* CollisionConfig { layer, mask }
collision_config ==
    [player |-> [layer |-> Characters, mask |-> BitOr(Environment, Tools)],
     bag    |-> [layer |-> Tools, mask |-> 0],
     can    |-> [layer |-> Tools, mask |-> 0]]

HasCollisionConfig(e) == e \in DOMAIN collision_config

\* the components setup_player gives each entity, FollowTarget apart
components ==
    [player    |-> {"Transform", "TextureAtlasSprite", "Timer", "Animation",
                    "CollisionConfig", "Player"},
     highlight |-> {"Transform", "Sprite", "Highlight"},
     bag       |-> {"Transform", "Sprite", "CollisionConfig", "PlantSeedTool"},
     can       |-> {"Transform", "Sprite", "CollisionConfig", "WaterPlantTool"}]

\* mutant: the crop is spawned as a second highlight
crop_components_highlighted ==
    {"Transform", "TextureAtlasSprite", "Growable", "Hydration", "Crop", "Timer",
     "Highlight"}

\* the components of the crops use_tool_system spawns
crop_components ==
    {"Transform", "TextureAtlasSprite", "Growable", "Hydration", "Crop", "Timer"}

HasHighlight(e) == e = "highlight"

HasPlantSeedTool(e) == e = "bag"

HasWaterPlantTool(e) == e = "can"

HasFollowTarget(e) == follow[e] # NoFollow

----------------------------------------------------------------------------
(* Pure functions *)

\* mutant: rounds towards zero (a cast) instead of Vec3::floor
Truncate(a, b) == IF a < 0 THEN -((-a) \div b) ELSE a \div b

pixel_to_tile_coord_truncating(pos) ==
    Vec3(Truncate(pos.x, TILE_SIZE) * TILE_SIZE, Truncate(pos.y, TILE_SIZE) * TILE_SIZE,
         pos.z)

\* mutant: Vec3::ceil instead of Vec3::floor
pixel_to_tile_coord_ceiling(pos) ==
    Vec3(-(((-pos.x) \div TILE_SIZE) * TILE_SIZE), -(((-pos.y) \div TILE_SIZE) * TILE_SIZE),
         pos.z)

\* Vec3::floor of pos / TILE_SIZE, times TILE_SIZE, z kept
pixel_to_tile_coord(pos) ==
    Vec3((pos.x \div TILE_SIZE) * TILE_SIZE, (pos.y \div TILE_SIZE) * TILE_SIZE, pos.z)

\* bevy::sprite::collide_aabb::collide(a_pos, a_size, b_pos, b_size).is_some()
collide(a_pos, a_size, b_pos, b_size) ==
    /\ 2 * a_pos.x - a_size < 2 * b_pos.x + b_size
    /\ 2 * a_pos.x + a_size > 2 * b_pos.x - b_size
    /\ 2 * a_pos.y - a_size < 2 * b_pos.y + b_size
    /\ 2 * a_pos.y + a_size > 2 * b_pos.y - b_size

action_pressed(name, keyboard_input) ==
    CASE name = "move_left"  -> "Left" \in keyboard_input \/ "A" \in keyboard_input
      [] name = "move_right" -> "Right" \in keyboard_input \/ "D" \in keyboard_input
      [] name = "move_up"    -> "Up" \in keyboard_input \/ "W" \in keyboard_input
      [] name = "move_down"  -> "Down" \in keyboard_input \/ "S" \in keyboard_input
      [] OTHER -> FALSE

\* mutant: move_left wins over move_right, and move_up over move_down
direction_first_wins(keyboard_input) ==
    [x |-> IF action_pressed("move_left", keyboard_input) THEN -1
           ELSE IF action_pressed("move_right", keyboard_input) THEN 1 ELSE 0,
     y |-> IF action_pressed("move_up", keyboard_input) THEN 1
           ELSE IF action_pressed("move_down", keyboard_input) THEN -1 ELSE 0]

\* the direction player_movement_system accumulates from the pressed actions
direction(keyboard_input) ==
    [x |-> (IF action_pressed("move_right", keyboard_input) THEN 1 ELSE 0)
           - (IF action_pressed("move_left", keyboard_input) THEN 1 ELSE 0),
     y |-> (IF action_pressed("move_up", keyboard_input) THEN 1 ELSE 0)
           - (IF action_pressed("move_down", keyboard_input) THEN 1 ELSE 0)]

\* direction.normalize_or_zero() * 250.0 * TIME_STEP
displacement(dir) ==
    LET len == IF dir.x # 0 /\ dir.y # 0 THEN DIAGONAL_LENGTH ELSE STEP_LENGTH
    IN  Vec3(dir.x * len, dir.y * len, 0)

\* mutant: the offset is not mirrored with the sprite
follow_pos_unflipped(f) ==
    Add(f.target, Vec3(f.offset.x - TILE_SIZE \div 2, f.offset.y, f.offset.z))

\* the position follow_system computes for a FollowTarget, before snapping
follow_pos(f) ==
    LET flip == IF f.flip_x THEN -1 ELSE 1
        offset == Vec3(flip * f.offset.x - TILE_SIZE \div 2, f.offset.y, f.offset.z)
    IN  Add(f.target, offset)


----------------------------------------------------------------------------
(* The state after the startup systems *)

PickupOffset == Vec3(-((TILE_SIZE \div 3) * SCALE), -(TILE_SIZE \div 2), 0)

setup_player ==
    /\ translation = [player    |-> Vec3(0, 0, 5),
                      highlight |-> Vec3(0, 0, 0),
                      bag       |-> Vec3(-200 * SubPixel, 0, 1),
                      can       |-> Vec3(200 * SubPixel, 0, 1)]
    /\ follow = [player    |-> NoFollow,
                 highlight |-> [target    |-> Vec3(0, 0, 0),
                                offset    |-> Vec3(-((32 * SubPixel) \div 2) * SCALE, 0, 0),
                                flip_x    |-> FALSE,
                                grid_snap |-> TRUE],
                 bag       |-> NoFollow,
                 can       |-> NoFollow]
    /\ flip_x = FALSE
    /\ animation = FALSE
    /\ index = 0

Init ==
    /\ setup_player
    /\ crops = << >>
    /\ commands = << >>
    /\ ran = {}
    /\ keys = {}
    /\ pickups = 0
    /\ watered = << >>

----------------------------------------------------------------------------
(* The systems.  Run(s): system s takes its turn in the current frame. *)

Run(s) ==
    /\ s \notin ran
    /\ ran' = ran \cup {s}
    /\ UNCHANGED keys
    /\ \/ s = "pickup"
       \/ UNCHANGED pickups
    /\ \/ s = "use_tool"
       \/ UNCHANGED watered

\* mutant: the index runs past the end of the atlas
animate_sprite_system_unwrapped(finished) ==
    /\ Run("animate_sprite")
    /\ index' = IF finished
                THEN (IF animation THEN index + 1 ELSE 0)
                ELSE index
    /\ UNCHANGED <<translation, follow, flip_x, animation, crops, commands>>

\* finished: whether the tick of the frame's delta completes the player's timer
animate_sprite_system(finished) ==
    /\ Run("animate_sprite")
    /\ index' = IF finished
                THEN (IF animation THEN (index + 1) % ATLAS_LEN ELSE 0)
                ELSE index
    /\ UNCHANGED <<translation, follow, flip_x, animation, crops, commands>>

\* mutant: grows past max_growth_state
grow_unbounded(crop, finished) ==
    IF finished /\ crop.hydration >= 1
    THEN [crop EXCEPT !.growth_state = crop.growth_state + 1,
                      !.index = crop.growth_state + 1,
                      !.hydration = 0]
    ELSE crop

\* mutant: the water is not used up
grow_keeping_water(crop, finished) ==
    IF finished /\ crop.growth_state < crop.max_growth_state /\ crop.hydration >= 1
    THEN [crop EXCEPT !.growth_state = crop.growth_state + 1,
                      !.index = crop.growth_state + 1]
    ELSE crop

\* mutant: grows without looking at the hydration
grow_unwatered(crop, finished) ==
    IF finished /\ crop.growth_state < crop.max_growth_state
    THEN [crop EXCEPT !.growth_state = crop.growth_state + 1,
                      !.index = crop.growth_state + 1,
                      !.hydration = 0]
    ELSE crop

\* mutant: asks for more water than a watering gives
grow_soaked(crop, finished) ==
    IF finished /\ crop.growth_state < crop.max_growth_state /\ crop.hydration > 1
    THEN [crop EXCEPT !.growth_state = crop.growth_state + 1,
                      !.index = crop.growth_state + 1,
                      !.hydration = 0]
    ELSE crop

\* the body of grow_system's loop for one crop
grow(crop, finished) ==
    IF finished /\ crop.growth_state < crop.max_growth_state /\ crop.hydration >= 1
    THEN [crop EXCEPT !.growth_state = crop.growth_state + 1,
                      !.index = crop.growth_state + 1,
                      !.hydration = 0]
    ELSE crop

\* finished[i]: whether the tick of the frame's delta completes crop i's timer
grow_system(finished) ==
    /\ Run("grow")
    /\ crops' = [i \in DOMAIN crops |-> grow(crops[i], finished[i])]
    /\ UNCHANGED <<translation, follow, flip_x, animation, index, commands>>

update_follow_system ==
    /\ Run("update_follow")
    /\ follow' = [e \in Entities |->
                    IF HasFollowTarget(e)
                    THEN [follow[e] EXCEPT
                            !.target = Vec3(translation["player"].x + PLAYER_SIZE \div 4,
                                            translation["player"].y + PLAYER_SIZE \div 4,
                                            1),
                            !.flip_x = flip_x]
                    ELSE follow[e]]
    /\ UNCHANGED <<translation, flip_x, animation, index, crops, commands>>

follow_system ==
    /\ Run("follow")
    /\ translation' = [e \in Entities |->
                         IF HasFollowTarget(e)
                         THEN (IF follow[e].grid_snap
                               THEN pixel_to_tile_coord(follow_pos(follow[e]))
                               ELSE follow_pos(follow[e]))
                         ELSE translation[e]]
    /\ UNCHANGED <<follow, flip_x, animation, index, crops, commands>>


\* mutant: compares the x coordinates only
same_column(a, b) == a.x = b.x

\* Vec3::new(a.x, a.y, 0.0) == Vec3::new(b.x, b.y, 0.0)
same_tile(a, b) == a.x = b.x /\ a.y = b.y

\* mutant: the tile is taken to be free whatever stands on it
free_slot_unchecked(cq, transform) == TRUE

free_slot(cq, transform) ==
    \A i \in DOMAIN cq : ~same_tile(cq[i].translation, transform)

\* the bundle use_tool_system spawns
new_crop(transform) ==
    [translation      |-> transform,
     growth_state     |-> 0,
     max_growth_state |-> GROWN,
     hydration        |-> 0,
     index            |-> 0]

\* the Return presses the model explores: over the tiles of the field, and
\* planting no more than MaxCrops crops
InField(transform) ==
    /\ TILE_SIZE <= transform.x /\ transform.x <= FieldTiles * TILE_SIZE
    /\ 0 <= transform.y /\ transform.y <= FieldTiles * TILE_SIZE

ReturnExplored(just_pressed) ==
    just_pressed =>
        /\ InField(translation["highlight"])
        /\ Len(crops) < MaxCrops \/ ~free_slot(crops, translation["highlight"])

\* mutant: waters the crop wherever it stands
water_anywhere(crop, transform) == [crop EXCEPT !.hydration = 1]

\* the body of the watering loop for one crop
water(crop, transform) ==
    IF same_tile(crop.translation, transform)
    THEN [crop EXCEPT !.hydration = 1]
    ELSE crop

\* just_pressed: keyboard_input.just_pressed(KeyCode::Return) in this frame
use_tool_system(just_pressed) ==
    LET tool_query == SetToSeq({e \in Entities : HasFollowTarget(e)}, EntityOrder)
        transform  == translation["highlight"]
        plants     == SelectSeq(tool_query, HasPlantSeedTool)
        waters     == SelectSeq(tool_query, HasWaterPlantTool)
    IN  /\ Run("use_tool")
        /\ ReturnExplored(just_pressed)
        /\ commands' =
             IF just_pressed /\ free_slot(crops, transform)
             THEN commands \o [i \in DOMAIN plants |->
                                 [op |-> "spawn", crop |-> new_crop(transform)]]
             ELSE commands
        /\ crops' =
             IF just_pressed /\ Len(waters) > 0
             THEN [i \in DOMAIN crops |-> water(crops[i], transform)]
             ELSE crops
        /\ watered' =
             IF just_pressed /\ Len(waters) > 0
             THEN [i \in DOMAIN crops |->
                     IF same_tile(crops[i].translation, transform)
                     THEN Min(watered[i] + 1, MaxWaterings)
                     ELSE watered[i]]
             ELSE watered
        /\ UNCHANGED <<translation, follow, flip_x, animation, index>>

\* mutant: the collision test is left out
picks_up_without_collision(e) ==
    /\ BitAnd(collision_config[e].layer, collision_config["player"].mask) # 0
    /\ BitAnd(collision_config[e].layer, Tools) # 0

\* the condition under which pickup_system picks entity e up
picks_up(e) ==
    /\ collide(translation["player"], PLAYER_SIZE, translation[e], TILE_SIZE)
    /\ BitAnd(collision_config[e].layer, collision_config["player"].mask) # 0
    /\ BitAnd(collision_config[e].layer, Tools) # 0

\* the FollowTarget pickup_system gives entity e
picked_up(e) ==
    [target    |-> translation[e],
     offset    |-> PickupOffset,
     flip_x    |-> FALSE,
     grid_snap |-> FALSE]

\* mutant: the tools in hand are not released
pickup_commands_keeping_tools(e) ==
    IF picks_up(e)
    THEN << [op |-> "insert", entity |-> e, follow |-> picked_up(e)] >>
    ELSE << >>

\* mutant: tool_query without its Without<Highlight> filter
pickup_commands_releasing_highlight(e) ==
    LET tool_query == SetToSeq({a \in Entities : HasFollowTarget(a)}, EntityOrder)
    IN  IF picks_up(e)
        THEN [i \in DOMAIN tool_query |-> [op |-> "remove", entity |-> tool_query[i]]]
             \o << [op |-> "insert", entity |-> e, follow |-> picked_up(e)] >>
        ELSE << >>

\* the commands pickup_system queues for one entity of col_query
pickup_commands(e) ==
    LET tool_query == SetToSeq({a \in Entities : HasFollowTarget(a) /\ ~HasHighlight(a)},
                               EntityOrder)
    IN  IF picks_up(e)
        THEN [i \in DOMAIN tool_query |-> [op |-> "remove", entity |-> tool_query[i]]]
             \o << [op |-> "insert", entity |-> e, follow |-> picked_up(e)] >>
        ELSE << >>

RECURSIVE Concat(_)
Concat(ss) == IF ss = << >> THEN << >> ELSE Head(ss) \o Concat(Tail(ss))

col_query == SetToSeq({e \in Entities : HasCollisionConfig(e) /\ ~HasFollowTarget(e)},
                      EntityOrder)

\* the E presses the model explores: no more than MaxPickups pickups
PickupExplored(just_pressed) ==
    just_pressed /\ (\E i \in DOMAIN col_query : picks_up(col_query[i]))
        => pickups < MaxPickups

\* just_pressed: keyboard_input.just_pressed(KeyCode::E) in this frame
pickup_system(just_pressed) ==
    /\ Run("pickup")
    /\ PickupExplored(just_pressed)
    /\ commands' =
         IF just_pressed
         THEN commands \o Concat([i \in DOMAIN col_query |-> pickup_commands(col_query[i])])
         ELSE commands
    /\ pickups' = IF commands' # commands THEN pickups + 1 ELSE pickups
    /\ UNCHANGED <<translation, follow, flip_x, animation, index, crops>>

\* one run of player_movement_system with the keys keyboard_input held down, on
\* the player's components p = [translation, flip_x, animation]
movement(p, keyboard_input) ==
    LET dir == direction(keyboard_input)
    IN  [translation |-> Add(p.translation, displacement(dir)),
         flip_x      |-> IF action_pressed("move_right", keyboard_input) THEN TRUE
                         ELSE IF action_pressed("move_left", keyboard_input) THEN FALSE
                         ELSE p.flip_x,
         animation   |-> (dir.x # 0 \/ dir.y # 0)]

RECURSIVE movements(_, _, _)
movements(p, keyboard_input, n) ==
    IF n = 0 THEN p
    ELSE CHOOSE r \in {movements(q, keyboard_input, n - 1) :
                          q \in {movement(p, keyboard_input)}} : TRUE

\* the player's components after n runs of player_movement_system
player_movement_system(keyboard_input, n) ==
    LET p == movements([translation |-> translation["player"], flip_x |-> flip_x,
                        animation |-> animation], keyboard_input, n)
    IN  /\ translation' = [translation EXCEPT !["player"] = p.translation]
        /\ flip_x' = p.flip_x
        /\ animation' = p.animation

----------------------------------------------------------------------------
(* The engine: the fixed timestep and the command buffers *)

InBox(pos) ==
    /\ -MaxTiles * TILE_SIZE <= pos.x /\ pos.x <= MaxTiles * TILE_SIZE
    /\ -MaxTiles * TILE_SIZE <= pos.y /\ pos.y <= MaxTiles * TILE_SIZE

\* the frame's displacement keeps the player in the box the model explores
MoveExplored(keyboard_input) ==
    LET d == displacement(direction(keyboard_input))
    IN  InBox(Vec3(translation["player"].x + StepsPerFrame * d.x,
                   translation["player"].y + StepsPerFrame * d.y, 0))

\* FixedTimestep: the first run of player_movement_system in a frame, which
\* takes its turn among the other systems
fixed_step(keyboard_input) ==
    /\ "player_movement" \notin ran
    /\ MoveExplored(keyboard_input)
    /\ player_movement_system(keyboard_input, 1)
    /\ ran' = ran \cup {"player_movement"}
    /\ keys' = keyboard_input
    /\ UNCHANGED <<follow, index, crops, commands, pickups, watered>>

\* mutant: a FollowTarget is never taken away
apply_command_without_remove(c, fs, cs) ==
    CASE c.op = "remove" -> [follow |-> fs, crops |-> cs]
      [] c.op = "insert" -> [follow |-> [fs EXCEPT ![c.entity] = c.follow], crops |-> cs]
      [] c.op = "spawn"  -> [follow |-> fs, crops |-> Append(cs, c.crop)]

apply_command(c, fs, cs) ==
    CASE c.op = "remove" -> [follow |-> [fs EXCEPT ![c.entity] = NoFollow], crops |-> cs]
      [] c.op = "insert" -> [follow |-> [fs EXCEPT ![c.entity] = c.follow], crops |-> cs]
      [] c.op = "spawn"  -> [follow |-> fs, crops |-> Append(cs, c.crop)]

RECURSIVE apply_all(_, _, _)
apply_all(cmds, fs, cs) ==
    IF cmds = << >> THEN [follow |-> fs, crops |-> cs]
    ELSE LET r == apply_command(Head(cmds), fs, cs)
         IN  apply_all(Tail(cmds), r.follow, r.crops)

\* The end of the frame, when the systems of the frame have all run: their
\* command buffers are applied, and the fixed timestep runs
\* player_movement_system for the steps of the frame that remain.
apply_buffers(systems) ==
    LET r == apply_all(commands, follow, crops)
    IN  /\ systems \subseteq ran
        /\ follow' = r.follow
        /\ crops' = r.crops
        /\ watered' = watered \o [i \in 1..(Len(r.crops) - Len(crops)) |-> 0]
        /\ commands' = << >>
        /\ IF "player_movement" \in ran
           THEN player_movement_system(keys, StepsPerFrame - 1)
           ELSE UNCHANGED <<translation, flip_x, animation>>
        /\ ran' = {}
        /\ keys' = {}
        /\ UNCHANGED <<index, pickups>>

----------------------------------------------------------------------------
(* Specifications *)

\* the key combinations with which the player walks along the row of the tools
GameKeys == {{}, {"Left"}, {"D"}, {"A", "Right"}}

\* the key combinations with which the player walks over the field
FarmKeys == GameKeys \cup {{"W"}, {"S"}}

\* the key combinations the specification of the animation explores
AnimKeys == {{}, {"Left"}, {"D"}, {"A", "Right"}, {"Up"}, {"S"}, {"W", "Down"},
             {"Right", "W"}, {"A", "Down"}, {"Left", "Right", "Up"}}

\* Scheduled(order, s): every system that order puts before s has run
Scheduled(order, s) == \A t \in Systems \cup {"player_movement"} :
                           <<t, s>> \in order => t \in ran

\* The follow chain and the pickup of tools, the systems in any order.
FollowSystems == {"update_follow", "follow", "pickup"}

Next ==
    \/ update_follow_system
    \/ follow_system
    \/ \E just_pressed \in BOOLEAN : pickup_system(just_pressed)
    \/ \E keyboard_input \in GameKeys : fixed_step(keyboard_input)
    \/ apply_buffers(FollowSystems)

Spec == Init /\ [][Next]_vars

\* The game with its crops.  grow_system and use_tool_system take their turn
\* at any point of the frame; the other systems run in the order in which
\* GamePlugin::build registers them.
FarmSystems == {"grow", "update_follow", "follow", "use_tool", "pickup"}

FarmOrder == {<<"update_follow", "follow">>, <<"follow", "pickup">>,
              <<"pickup", "player_movement">>}

FarmStep(keysets) ==
    \/ \E finished \in [DOMAIN crops -> BOOLEAN] : grow_system(finished)
    \/ Scheduled(FarmOrder, "update_follow") /\ update_follow_system
    \/ Scheduled(FarmOrder, "follow") /\ follow_system
    \/ \E just_pressed \in BOOLEAN : use_tool_system(just_pressed)
    \/ /\ Scheduled(FarmOrder, "pickup")
       /\ \E just_pressed \in BOOLEAN : pickup_system(just_pressed)
       /\ pickups' <= MaxFarmPickups
    \/ Scheduled(FarmOrder, "player_movement")
         /\ \E keyboard_input \in keysets : fixed_step(keyboard_input)
    \/ apply_buffers(FarmSystems)

NextFarm == FarmStep(FarmKeys)

SpecFarm == Init /\ [][NextFarm]_vars

\* The game with its crops while the player stays on the row of the tools.
NextRow == FarmStep(GameKeys)

\* a frame in which the tick of grow_system completes the timer of crop i
GrowTick(i) ==
    \E finished \in [DOMAIN crops -> BOOLEAN] :
        i \in DOMAIN crops /\ finished[i] /\ grow_system(finished)

\* Time keeps advancing: frames keep being run, and the repeating timer of
\* every crop finishes again and again.
SpecFarmLive ==
    /\ Init /\ [][NextRow]_vars
    /\ WF_vars(NextRow)
    /\ \A i \in 1..MaxCrops : SF_vars(GrowTick(i))

\* The player's animation: animate_sprite_system and player_movement_system.
NextAnim ==
    \/ \E finished \in BOOLEAN : animate_sprite_system(finished)
    \/ \E keyboard_input \in AnimKeys : fixed_step(keyboard_input)
    \/ apply_buffers({"animate_sprite"})

SpecAnim == Init /\ [][NextAnim]_vars

\* pixel_to_tile_coord on its own, applied to the highlight's position.
\* The coordinates tried: on, next to and between the lines of the grid.
SnapCoords ==
    {t * TILE_SIZE + d : t \in -MaxTiles..MaxTiles,
                         d \in {0, 1, TILE_SIZE \div 2, TILE_SIZE - 1}}

InitSnap ==
    /\ \E x, y \in SnapCoords : \E z \in {0, 1, 5} :
          translation = [player    |-> Vec3(0, 0, 5),
                         highlight |-> Vec3(x, y, z),
                         bag       |-> Vec3(-200 * SubPixel, 0, 1),
                         can       |-> Vec3(200 * SubPixel, 0, 1)]
    /\ follow = [e \in Entities |-> NoFollow]
    /\ flip_x = FALSE
    /\ animation = FALSE
    /\ index = 0
    /\ crops = << >>
    /\ commands = << >>
    /\ ran = {}
    /\ keys = {}
    /\ pickups = 0
    /\ watered = << >>

\* one application; ran records that the position has been through the function
snap_highlight ==
    /\ translation' = [translation EXCEPT
                          !["highlight"] = pixel_to_tile_coord(translation["highlight"])]
    /\ ran' = ran \cup {"pixel_to_tile_coord"}
    /\ UNCHANGED <<follow, flip_x, animation, index, crops, commands, keys,
                   pickups, watered>>

NextSnap == snap_highlight

SpecSnap == InitSnap /\ [][NextSnap]_vars

----------------------------------------------------------------------------
(* Properties *)

Abs(n) == IF n < 0 THEN -n ELSE n

Bit(n, b) == (n \div (2 ^ b)) % 2

Held == {e \in Entities : HasFollowTarget(e) /\ ~HasHighlight(e)}

Queued(cmds, op, e) == \E i \in DOMAIN cmds : cmds[i].op = op /\ cmds[i].entity = e

\* the boxes of the player (PLAYER_SIZE square) and of e (TILE_SIZE square) overlap
BoxesOverlap(e) ==
    /\ 2 * Abs(translation["player"].x - translation[e].x) < PLAYER_SIZE + TILE_SIZE
    /\ 2 * Abs(translation["player"].y - translation[e].y) < PLAYER_SIZE + TILE_SIZE

ShouldPickUp(e) ==
    /\ BoxesOverlap(e)
    /\ \E b \in 0..3 : Bit(collision_config[e].layer, b) = 1
                       /\ Bit(collision_config["player"].mask, b) = 1
    /\ Bit(collision_config[e].layer, 1) = 1

\* C1: in a frame in which E is just pressed, pickup_system queues a FollowTarget
\* for an entity with a CollisionConfig and no FollowTarget exactly if its box
\* overlaps the player's, its layer meets the player's mask and has the Tools
\* bit; an entity gains (loses) a FollowTarget only when the frame's commands
\* are applied and hold an insertion (a removal) for it, every queued insertion
\* gives one, and a frame without the E press queues nothing.
C1_PickupRule ==
    [][/\ \A jp \in BOOLEAN : pickup_system(jp) =>
             \A e \in Entities : HasCollisionConfig(e) /\ ~HasFollowTarget(e) =>
                 (Queued(commands', "insert", e) <=> jp /\ ShouldPickUp(e))
       /\ pickup_system(FALSE) => commands' = commands
       /\ commands' # commands => pickup_system(TRUE) \/ commands' = << >>
       /\ \A e \in Entities :
            /\ follow[e] = NoFollow /\ follow'[e] # NoFollow
                  => Queued(commands, "insert", e) /\ commands' = << >>
            /\ follow[e] # NoFollow /\ follow'[e] = NoFollow
                  => Queued(commands, "remove", e) /\ commands' = << >>
            /\ Queued(commands, "insert", e) /\ commands' = << >>
                  => follow'[e] # NoFollow
      ]_vars

\* a tool has been picked up: its insertion was queued and applied
C1_Witness == pickups >= 1 /\ commands = << >> /\ Held # {}

\* C9: at most one entity other than the highlight has a FollowTarget, and
\* once one has, one has in every later state.
C9_OneToolHeld ==
    /\ [](Cardinality(Held) <= 1)
    /\ [][Held # {} => Held' # {}]_vars

\* a second pickup has swapped the tools
C9_Witness == pickups = 2 /\ commands = << >> /\ Cardinality(Held) = 1

\* C6: a run of follow_system leaves the highlight on the greatest multiples of
\* TILE_SIZE that are at most the x and the y of its unsnapped follow
\* position, with the z of that position.
C6_HighlightSnapped ==
    [][follow_system =>
         LET pos == follow_pos(follow["highlight"])
             t   == translation'["highlight"]
         IN  /\ t.x % TILE_SIZE = 0 /\ t.x <= pos.x /\ pos.x < t.x + TILE_SIZE
             /\ t.y % TILE_SIZE = 0 /\ t.y <= pos.y /\ pos.y < t.y + TILE_SIZE
             /\ t.z = pos.z
      ]_vars

\* follow_system has snapped a negative x coordinate that is not on the grid
C6_Witness ==
    /\ "follow" \in ran
    /\ follow_pos(follow["highlight"]).x < 0
    /\ follow_pos(follow["highlight"]).x % TILE_SIZE # 0
    /\ translation["highlight"] = pixel_to_tile_coord(follow_pos(follow["highlight"]))


OnTile(crop, transform) ==
    crop.translation.x = transform.x /\ crop.translation.y = transform.y

Occupied(transform) == \E i \in DOMAIN crops : OnTile(crops[i], transform)

SpawnsQueued(cmds) == SelectSeq(cmds, LAMBDA c : c.op = "spawn")

\* C2: when Return is just pressed while the seed tool is held and the watering
\* tool is not, use_tool_system queues one new crop (growth_state 0,
\* max_growth_state 2, hydration 0, at the highlight's position) exactly if no
\* crop has the x and y of the highlight, and leaves every crop as it is; the
\* queued crop joins the crops when the frame's commands are applied, and no
\* crop appears in any other way.
C2_Planting ==
    [][/\ use_tool_system(TRUE) /\ HasFollowTarget("bag") /\ ~HasFollowTarget("can") =>
             /\ crops' = crops
             /\ IF Occupied(translation["highlight"])
                THEN commands' = commands
                ELSE commands' = Append(commands,
                        [op |-> "spawn",
                         crop |-> [translation      |-> translation["highlight"],
                                   growth_state     |-> 0,
                                   max_growth_state |-> 2,
                                   hydration        |-> 0,
                                   index            |-> 0]])
       /\ Len(crops') # Len(crops) =>
             /\ commands' = << >>
             /\ Len(crops') = Len(crops) + Len(SpawnsQueued(commands))
             /\ \A i \in 1..Len(SpawnsQueued(commands)) :
                    crops'[Len(crops) + i] = SpawnsQueued(commands)[i].crop
             /\ \A i \in DOMAIN crops : crops'[i] = crops[i]
       /\ SpawnsQueued(commands) # << >> /\ commands' = << >> => Len(crops') > Len(crops)
      ]_vars

\* with a crop on the field and the seed tool held, a crop planted on another
\* tile is waiting in the commands
C2_Witness ==
    /\ HasFollowTarget("bag")
    /\ Len(crops) = 1
    /\ "use_tool" \in ran
    /\ Len(SpawnsQueued(commands)) = 1
    /\ ~OnTile(crops[1], SpawnsQueued(commands)[1].crop.translation)

\* C3: when Return is just pressed while the watering tool is held and the seed
\* tool is not, use_tool_system sets the hydration of the crops on the
\* highlighted tile to 1 and changes nothing else: the other crops, every
\* growth_state, the number of crops and the queued commands stay as they are.
C3_Watering ==
    [][use_tool_system(TRUE) /\ HasFollowTarget("can") /\ ~HasFollowTarget("bag") =>
         /\ Len(crops') = Len(crops)
         /\ commands' = commands
         /\ \A i \in DOMAIN crops :
              /\ crops'[i].growth_state = crops[i].growth_state
              /\ crops'[i].translation = crops[i].translation
              /\ crops'[i].index = crops[i].index
              /\ crops'[i].max_growth_state = crops[i].max_growth_state
              /\ crops'[i].hydration = IF OnTile(crops[i], translation["highlight"])
                                       THEN 1 ELSE crops[i].hydration
      ]_vars

\* of two crops, one has been watered and the other has not
C3_Witness ==
    /\ HasFollowTarget("can")
    /\ Len(crops) = 2
    /\ "use_tool" \in ran
    /\ crops[1].hydration # crops[2].hydration

\* C4: a step changes a crop's growth_state, sprite index or hydration-to-0
\* only as follows: grow_system, in a frame whose tick finishes that crop's
\* timer while growth_state < max_growth_state and hydration >= 1, adds 1 to
\* growth_state, sets the sprite index to the new growth_state and the
\* hydration to 0; in every other case grow_system leaves the crop as it is,
\* and no other system changes a growth_state or a sprite index.
C4_GrowthRule ==
    [][/\ \A finished \in [DOMAIN crops -> BOOLEAN] : grow_system(finished) =>
             \A i \in DOMAIN crops :
                 IF finished[i] /\ crops[i].growth_state < crops[i].max_growth_state
                                /\ crops[i].hydration >= 1
                 THEN /\ crops'[i].growth_state = crops[i].growth_state + 1
                      /\ crops'[i].index = crops'[i].growth_state
                      /\ crops'[i].hydration = 0
                 ELSE crops'[i] = crops[i]
       /\ \A i \in DOMAIN crops :
             crops'[i].growth_state # crops[i].growth_state \/ crops'[i].index # crops[i].index
                 => "grow" \notin ran /\ "grow" \in ran'
      ]_vars

\* a crop has grown twice
C4_Witness == \E i \in DOMAIN crops : crops[i].growth_state = 2 /\ crops[i].index = 2

\* C10: no two crops have the same x and y.
C10_OneCropPerTile ==
    \A i, j \in DOMAIN crops : i # j => ~OnTile(crops[i], crops[j].translation)

\* two crops stand on the field and Return is pressed again on one of them
C10_Witness ==
    /\ Len(crops) = 2
    /\ HasFollowTarget("bag")
    /\ "use_tool" \in ran
    /\ Occupied(translation["highlight"])


Hydrated(i, g) ==
    /\ i \in DOMAIN crops
    /\ crops[i].hydration >= 1
    /\ crops[i].growth_state = g
    /\ g < crops[i].max_growth_state

Grown(i, g) == i \in DOMAIN crops /\ crops[i].growth_state = g + 1

\* C5: when frames keep being run and each crop's repeating timer keeps
\* finishing, a crop with hydration >= 1 and growth_state g < max_growth_state
\* eventually has growth_state g + 1, in whichever order grow_system and
\* use_tool_system run within a frame.
C5_WateredCropGrows ==
    \A i \in 1..MaxCrops : \A g \in 0..(GROWN - 1) : Hydrated(i, g) ~> Grown(i, g)

\* a crop that was watered when grow_system had already run in the frame
C5_Witness ==
    /\ {"grow", "use_tool"} \subseteq ran
    /\ \E i \in DOMAIN crops : Hydrated(i, 1)

NetX(keyboard_input) ==
    (IF keyboard_input \cap {"Right", "D"} # {} THEN 1 ELSE 0)
    - (IF keyboard_input \cap {"Left", "A"} # {} THEN 1 ELSE 0)

NetY(keyboard_input) ==
    (IF keyboard_input \cap {"Up", "W"} # {} THEN 1 ELSE 0)
    - (IF keyboard_input \cap {"Down", "S"} # {} THEN 1 ELSE 0)

Still(keyboard_input) == NetX(keyboard_input) = 0 /\ NetY(keyboard_input) = 0

\* the steps in which player_movement_system runs with the keys keyboard_input
MovementStep(keyboard_input) ==
    \/ fixed_step(keyboard_input)
    \/ /\ apply_buffers({"animate_sprite"})
       /\ "player_movement" \in ran
       /\ keys = keyboard_input

\* C7: in a frame where the player's timer finishes, animate_sprite_system
\* makes the sprite index (index + 1) modulo 4 if the Animation flag is true
\* and 0 if it is false; when the timer has not finished it leaves the index
\* as it is; nothing else changes the index, and the index is always in 0..3.
C7_AnimationFrame ==
    /\ [](index \in 0..3)
    /\ [][/\ animate_sprite_system(TRUE) =>
                index' = IF animation THEN (IF index = 3 THEN 0 ELSE index + 1) ELSE 0
          /\ animate_sprite_system(FALSE) => index' = index
          /\ index' # index => "animate_sprite" \notin ran /\ "animate_sprite" \in ran'
         ]_vars

\* the timer finishes on the last frame of the atlas while the player walks
C7_Witness == index = 3 /\ animation /\ "animate_sprite" \notin ran

\* C8: after a step of player_movement_system the Animation flag is true
\* exactly if the pressed keys have a non-zero net direction (opposite keys
\* cancel on their axis); when the net direction is zero, as with no key or
\* with only an opposite pair pressed, the player's position is unchanged, and
\* otherwise the player moves on each axis in the direction of the keys.
C8_MovementAnimation ==
    [][\A keyboard_input \in AnimKeys : MovementStep(keyboard_input) =>
           LET from == translation["player"]
               to   == translation'["player"]
           IN  /\ animation' <=> ~Still(keyboard_input)
               /\ Still(keyboard_input) => to = from
               /\ NetX(keyboard_input) > 0 <=> to.x > from.x
               /\ NetX(keyboard_input) < 0 <=> to.x < from.x
               /\ NetY(keyboard_input) > 0 <=> to.y > from.y
               /\ NetY(keyboard_input) < 0 <=> to.y < from.y
      ]_vars

\* the player has walked away, and in this frame only an opposite pair is held
C8_Witness ==
    /\ "player_movement" \in ran
    /\ keys = {"A", "Right"}
    /\ ~animation
    /\ translation["player"].x # 0


\* C11: every crop has 0 <= growth_state <= max_growth_state = 2 in every
\* state; no step decreases a growth_state; and a crop at max_growth_state
\* keeps its growth_state in every step, and its hydration once it is watered.
C11_GrowthBounded ==
    /\ [](\A i \in DOMAIN crops :
             /\ crops[i].max_growth_state = 2
             /\ 0 <= crops[i].growth_state
             /\ crops[i].growth_state <= crops[i].max_growth_state)
    /\ [][\A i \in DOMAIN crops :
             /\ crops'[i].growth_state >= crops[i].growth_state
             /\ crops[i].growth_state = crops[i].max_growth_state =>
                   /\ crops'[i].growth_state = crops[i].growth_state
                   /\ crops[i].hydration >= 1 => crops'[i].hydration = crops[i].hydration
         ]_vars

\* a fully grown crop has been watered again, and grow_system has run since
C11_Witness ==
    /\ "grow" \in ran
    /\ "use_tool" \notin ran
    /\ \E i \in DOMAIN crops :
          crops[i].growth_state = crops[i].max_growth_state /\ crops[i].hydration = 1


\* crop i is on the highlighted tile when Return is pressed with the watering
\* tool held
WateringPress(i) ==
    /\ use_tool_system(TRUE)
    /\ HasFollowTarget("can")
    /\ OnTile(crops[i], translation["highlight"])

\* C12: the hydration of a crop is always 0 or 1 and its growth_state is at
\* most the number of Return presses that watered it (so a crop never watered
\* is at growth_state 0); the count of a crop rises only with such a press,
\* and every step that raises a growth_state raises it by 1 and takes the
\* hydration from 1 to 0.
C12_GrowthConsumesWatering ==
    /\ [](\A i \in DOMAIN crops :
             /\ crops[i].hydration \in {0, 1}
             /\ crops[i].growth_state <= watered[i])
    /\ [][\A i \in DOMAIN crops :
             /\ watered'[i] # watered[i] => WateringPress(i)
             /\ WateringPress(i) => watered'[i] = Min(watered[i] + 1, MaxWaterings)
             /\ crops'[i].growth_state # crops[i].growth_state =>
                   /\ crops'[i].growth_state = crops[i].growth_state + 1
                   /\ crops[i].hydration = 1
                   /\ crops'[i].hydration = 0
         ]_vars

\* a crop has grown twice on exactly two waterings, next to a crop that was
\* never watered
C12_Witness ==
    /\ Len(crops) = 2
    /\ \E i, j \in DOMAIN crops :
          /\ crops[i].growth_state = 2 /\ watered[i] = 2
          /\ crops[j].growth_state = 0 /\ watered[j] = 0


ToolEntities == {"bag", "can"}

\* E is just pressed while a is held and the box of b, on the ground, overlaps
\* the player's
SwapPress(a, b) ==
    /\ pickup_system(TRUE)
    /\ HasFollowTarget(a)
    /\ ~HasFollowTarget(b)
    /\ BoxesOverlap(b)

\* the frame ends and its commands, which take a out of the hand and put b
\* into it, are applied
SwapApplied(a, b) ==
    /\ commands # << >>
    /\ commands' = << >>
    /\ HasFollowTarget(a)
    /\ ~HasFollowTarget(b)
    /\ Queued(commands, "remove", a)
    /\ Queued(commands, "insert", b)

\* C13 as amended: a press of E while a is held and b, on the ground, overlaps
\* the player queues the removal of a's FollowTarget and the insertion of b's;
\* at the end of the frame a has no FollowTarget and b has one, and a stays
\* where it is for as long as it has none.  A further press of E swaps the
\* tools back exactly if the box of the tool on the ground overlaps the
\* player's; otherwise the press queues nothing.
C13_ToolSwap ==
    [][\A a, b \in ToolEntities : a # b =>
          /\ SwapPress(a, b) =>
                /\ Queued(commands', "remove", a)
                /\ Queued(commands', "insert", b)
          /\ SwapApplied(a, b) =>
                /\ follow'[a] = NoFollow
                /\ follow'[b] # NoFollow
          /\ ~HasFollowTarget(a) => translation'[a] = translation[a]
          /\ pickup_system(TRUE) /\ HasFollowTarget(a) /\ ~HasFollowTarget(b)
                /\ ~BoxesOverlap(b) => commands' = commands
      ]_vars

\* the bag was picked up, swapped for the can, and swapped back
C13_Witness == pickups = 3 /\ commands = << >> /\ Held = {"bag"}

\* C13 as stated: the tool put down by a swap, in a frame in which the player
\* does not move, lies within overlap range of the player, so that pressing E
\* again without moving picks it back up.
C13_SwapsBackInPlace ==
    [][\A a, b \in ToolEntities : a # b =>
          (SwapApplied(a, b) /\ keys = {} =>
               /\ translation'["player"] = translation["player"]
               /\ 2 * Abs(translation'["player"].x - translation'[a].x)
                     < PLAYER_SIZE + TILE_SIZE
               /\ 2 * Abs(translation'["player"].y - translation'[a].y)
                     < PLAYER_SIZE + TILE_SIZE)
      ]_vars


\* the place one tile beside the player, on the side its sprite faces
Beside ==
    [x |-> IF flip_x THEN translation["player"].x + TILE_SIZE
                     ELSE translation["player"].x - TILE_SIZE,
     y |-> translation["player"].y,
     z |-> 1]

\* C14: when follow_system runs after update_follow_system in a frame, with
\* the player where update_follow_system found it, the held tool is put at
\* (px - TILE_SIZE, py, 1) if the player's flip_x is false and at
\* (px + TILE_SIZE, py, 1) if it is true, whether or not that is on the grid.
C14_HeldToolPlacement ==
    [][follow_system /\ "update_follow" \in ran /\ "player_movement" \notin ran =>
           \A e \in ToolEntities : HasFollowTarget(e) => translation'[e] = Beside
      ]_vars

\* a held tool beside a player who has walked up the field and faces right,
\* off the grid
C14_Witness ==
    /\ "follow" \in ran
    /\ "player_movement" \notin ran
    /\ flip_x
    /\ translation["player"].y # 0
    /\ \E e \in ToolEntities :
          /\ HasFollowTarget(e)
          /\ translation[e] = Beside
          /\ translation[e].x % TILE_SIZE # 0


\* C15: in every state the highlight has the FollowTarget setup_player gave
\* it, with grid_snap true and its offset, and the player has no FollowTarget.
C15_HighlightAndPlayerUntouched ==
    /\ HasFollowTarget("highlight")
    /\ follow["highlight"].grid_snap = TRUE
    /\ follow["highlight"].offset = Vec3(-(PLAYER_SIZE \div 2), 0, 0)
    /\ ~HasFollowTarget("player")

\* E has just been pressed with a tool in the hand and the other tool in
\* reach; the player, in col_query, overlaps itself
C15_Witness ==
    /\ "pickup" \in ran
    /\ Held # {}
    /\ Queued(commands, "remove", CHOOSE e \in Held : TRUE)
    /\ HasCollisionConfig("player") /\ ~HasFollowTarget("player")
    /\ BoxesOverlap("player")
    /\ ~Queued(commands, "insert", "player")
    /\ ~Queued(commands, "remove", "highlight")


\* the entities a query for the components required matches
Matches(required) ==
    {e \in Entities : required \subseteq components[e]}
    \cup {<<"crop", i>> : i \in {j \in DOMAIN crops : required \subseteq crop_components}}

\* C16: in every state each query on which a system calls single() matches
\* exactly one entity: the player for update_follow_system, pickup_system and
\* player_movement_system, the highlight for use_tool_system.
C16_SingleNeverFails ==
    /\ Matches({"TextureAtlasSprite", "Transform", "Player"}) = {"player"}
    /\ Matches({"Transform", "Highlight"}) = {"highlight"}
    /\ Matches({"Transform", "CollisionConfig", "Player"}) = {"player"}
    /\ Matches({"Transform", "TextureAtlasSprite", "Animation", "Player"}) = {"player"}

\* the systems that call single() have run in a frame with crops on the field
C16_Witness ==
    /\ Len(crops) = MaxCrops
    /\ {"update_follow", "use_tool", "pickup", "player_movement"} \subseteq ran
    /\ Cardinality(Matches({"Transform", "TextureAtlasSprite"})) = 1 + MaxCrops


\* C17: for every position p, r = pixel_to_tile_coord(p) satisfies
\* r.x <= p.x < r.x + TILE_SIZE, r.y <= p.y < r.y + TILE_SIZE and r.z = p.z,
\* and r is snapped to itself: applying the function to a position that has
\* been through it changes nothing.
C17_SnapIdempotent ==
    [][snap_highlight =>
          LET p == translation["highlight"]
              r == translation'["highlight"]
          IN  /\ "pixel_to_tile_coord" \in ran => r = p
              /\ pixel_to_tile_coord(r) = r
              /\ r.x <= p.x /\ p.x < r.x + TILE_SIZE
              /\ r.y <= p.y /\ p.y < r.y + TILE_SIZE
              /\ r.z = p.z
      ]_vars

\* the corner of a tile with negative coordinates, in front of the grid
C17_Witness ==
    /\ "pixel_to_tile_coord" \in ran
    /\ translation["highlight"] = Vec3(-MaxTiles * TILE_SIZE, -TILE_SIZE, 5)

============================================================================
